---- MODULE Spec2Model ----
(***************************************************************************)
(* The ledger and order engine of backend/server.py: users' balances, the  *)
(* service catalog, orders and deposit transactions, under FastAPI's       *)
(* single-threaded asyncio scheduling.  A request runs from one storage    *)
(* call (await db....) to the next without interruption; between two       *)
(* storage calls any other request may run.  One action of the model is    *)
(* one storage call together with the Python code that follows it up to    *)
(* the next storage call or the response.                                  *)
(*                                                                         *)
(* Money is a float in the source.  The model keeps every amount as an     *)
(* integer number of 1/100000 currency units (MoneyUnit), and a rate as    *)
(* an integer number of cents, so that (quantity / 1000) * rate is the     *)
(* exact product quantity * rate; floating-point rounding is not modelled. *)
(*                                                                         *)
(* Spec is the ledger (create_order, request_deposit, approve_deposit)     *)
(* with two requests interleaved; SpecSerial is Spec with each user's      *)
(* placements one at a time; SpecApi is every endpoint, one request at a   *)
(* time.  SpecExample is the ledger on the spec's example scenario (rate   *)
(* 2.50, quantity 500, balances 1.00 and 1.25); SpecBook is placements,    *)
(* status updates and the order listings interleaved; SpecAuth is          *)
(* register, login and the requests get_current_user refuses.  SpecAll is  *)
(* SpecApi with login, get_me and get_balance; SpecMachine is placements   *)
(* and status updates over every status value; SpecDeposits is the deposit *)
(* requests and decisions with every started request resumed (weak         *)
(* fairness of the steps after an await); SpecRoles is register next to    *)
(* the writes to db.users and the admin check.  resp holds the response of *)
(* the step just taken, so that a property can relate a request to its     *)
(* answer.                                                                 *)
(***************************************************************************)
EXTENDS Integers, Sequences, FiniteSets, TLC

(* ------------------------------ bounds -------------------------------- *)

\* Orders created in one run (ids handed out by Order()).
MaxOrders == 2
\* Deposit transactions created in one run.
MaxTxns == 1
\* Services an admin adds to the seeded catalog in one run.
MaxNewServices == 1
\* completed_at stamps drawn in one run.
MaxStamps == 1

\* Users registered in one run.
MaxRegistrations == 2

\* The requests that can be in flight at the same time.
Reqs == {1, 2}

(* ----------------------------- constants ------------------------------ *)

\* One currency unit, in the model's money unit.
MoneyUnit == 100000

\* seed_data.py: the admin's and the test user's balances.
AdminSeedBalance == 1000 * MoneyUnit
UserSeedBalance == 100 * MoneyUnit

NoUser == [id |-> "", email |-> "", password_hash |-> <<>>, balance |-> 0, role |-> "",
           inserted |-> 0]
NoLoc == [kind |-> "none"]
NoStamp == 0

\* The users collection after seeding and one registration: the seeded admin
\* and test user, and a registered user (balance 0.0, role "user").
\* password_hash is hash_password(password) under the salt gensalt() drew (here
\* the user's id); inserted is the document's place in the collection's
\* natural order, the order find_one goes by.
SeedUsers ==
    [u \in {"admin", "u1", "u2"} |->
        CASE u = "admin" -> [id |-> u, email |-> "admin@boostup.com",
                             password_hash |-> <<u, "admin123">>,
                             balance |-> AdminSeedBalance, role |-> "admin", inserted |-> 1]
          [] u = "u1" -> [id |-> u, email |-> "user@test.com",
                          password_hash |-> <<u, "user123">>,
                          balance |-> UserSeedBalance, role |-> "user", inserted |-> 2]
          [] OTHER -> [id |-> u, email |-> "second@test.com",
                       password_hash |-> <<u, "second123">>,
                       balance |-> 0, role |-> "user", inserted |-> 3]]

\* Two of the seeded services: "Instagram Followers - High Quality" (rate 2.50)
\* and "YouTube Views - High Retention" (rate 2.00); rates in cents.
SeedServices ==
    << [id |-> 1, rate |-> 250, min_quantity |-> 100, max_quantity |-> 10000],
       [id |-> 2, rate |-> 200, min_quantity |-> 100, max_quantity |-> 50000] >>

(* ------------------------------- inputs ------------------------------- *)

\* Bearer tokens, each create_token(user_id) of a stored user: the callers of
\* the order endpoints, of the deposit request and of the admin endpoints.
OrderTokens == {"u1", "u2"}
DepositTokens == {"u2"}
AdminTokens == {"admin", "u1"}

\* service_id of an order: a seeded one, and one unknown until an admin adds it.
ServiceIdInputs == {2, 3}
\* Below the minimum of service 2, its maximum (an order of 100.00), above it.
QuantityInputs == {99, 50000, 50001}
LinkInputs == {"https://instagram.com/testprofile"}
\* A ServiceCreate body no check refuses: rate 0, min_quantity > max_quantity.
ServiceInputs == { [rate |-> 0, min_quantity |-> 500, max_quantity |-> 99] }
AmountInputs == {-MoneyUnit, 0, 100 * MoneyUnit}
OrderIdInputs == 1..MaxOrders
TxnIdInputs == 1..MaxTxns
StatusInputs == {"completed", "cancelled", "refunded"}
\* The spec's example scenario: a user without balance, the seeded service of
\* rate 2.50 (100..10000), its minimum and a quantity of 500, deposits of 1.00
\* and 1.25 that the admin approves, and the link without a host that tests/verify_hardening.py posts.
ExampleTokens == {"u2"}
ExampleServiceIds == {1}
ExampleQuantities == {100, 500}
ExampleAmounts == {MoneyUnit, (5 * MoneyUnit) \div 4}
ExampleLinks == {"invalid-url-no-host"}
ExampleAdminTokens == {"admin"}
ExampleActions == {"approve"}
\* The order book: the admin and the test user each place the minimum of the
\* YouTube Views service (0.20); the admin processes and cancels orders.
BookTokens == {"admin", "u1"}
BookServiceIds == {2}
BookQuantities == {100}
BookAdminTokens == {"admin"}
BookStatuses == {"processing", "cancelled"}
\* The status machine: the test user places the minimum of the YouTube Views
\* service; the admin and the test user ask for every status of server.py:277
\* and for one outside it.
MachineTokens == {"u1"}
MachineStatuses == {"pending", "processing", "completed", "cancelled", "refunded"}
\* Register and login bodies: a new email and the seeded test user's, two passwords.
EmailInputs == {"new@test.com", "user@test.com"}
PasswordInputs == {"user123", "other456"}
\* The ids uuid4 gives the users registered, in the order of construction.
NewUserIds == <<"n1", "n2", "n3">>
ActionInputs == {"approve", "reject", "delete"}

VARIABLES
    users,          \* db.users: id -> [id, email, password_hash, balance, role, inserted]
    services,       \* db.services, in insertion order
    orders,         \* db.orders, in insertion order
    transactions,   \* db.transactions, in insertion order
    req,            \* the requests in flight: slot -> the handler's frame
    nextOrder,      \* Order() objects constructed so far (uuid4 and created_at)
    nextTxn,        \* Transaction() objects constructed so far
    nextService,    \* Service() objects constructed so far
    clock,          \* completed_at stamps drawn so far
    resp            \* the response the last step sent, if it sent one

vars == <<users, services, orders, transactions, req, nextOrder, nextTxn, nextService,
          clock, resp>>

(* ------------------------------ helpers ------------------------------- *)

\* db.<collection>.find_one({"id": id}): the first document with that id.
FindOne(coll, id) ==
    IF \E i \in 1..Len(coll) : coll[i].id = id
      THEN {coll[CHOOSE i \in 1..Len(coll) :
                    coll[i].id = id /\ \A j \in 1..(i-1) : coll[j].id # id]}
      ELSE {}

Idle == [op |-> "none", pc |-> "idle", token |-> "", args |-> <<>>,
         user |-> NoUser, loc |-> NoLoc]

NoResp == [op |-> "none", token |-> "", status |-> 0, detail |-> "", result |-> <<>>]

\* A request is served in the first free slot.
Free(r) == req[r].pc = "idle" /\ \A q \in Reqs : q < r => req[q].pc # "idle"

\* A request entering a handler: its frame before the first storage call.
Frame(op, token, args) ==
    [op |-> op, pc |-> "auth", token |-> token, args |-> args,
     user |-> NoUser, loc |-> NoLoc]

\* The request with frame f answers (an HTTPException, or the return value)
\* and its frame is gone.
Respond(r, f, status, detail, result) ==
    /\ req' = [req EXCEPT ![r] = Idle]
    /\ resp' = [op |-> f.op, token |-> f.token, status |-> status, detail |-> detail,
                result |-> result]

\* The request goes on to its next storage call with frame f.
Continue(r, f) ==
    /\ req' = [req EXCEPT ![r] = f]
    /\ resp' = NoResp

At(r, op, pc) == req[r].op = op /\ req[r].pc = pc

(* ------------------------- storage operations ------------------------- *)

\* db.users.find_one({"id": user_id}).
FindUser(id) == IF id \in DOMAIN users THEN {users[id]} ELSE {}

\* db.users.update_one({"id": id}, {"$inc": {"balance": amount}}): the stored
\* balance, whatever it is now, plus amount; no document, no change.
IncBalance(us, id, amount) ==
    IF id \in DOMAIN us
      THEN [us EXCEPT ![id].balance = us[id].balance + amount]
      ELSE us

\* The index update_one({"id": id}, ...) matches: the first such document, or 0.
MatchIndex(coll, id) ==
    IF \E i \in 1..Len(coll) : coll[i].id = id
      THEN CHOOSE i \in 1..Len(coll) :
               coll[i].id = id /\ \A j \in 1..(i-1) : coll[j].id # id
      ELSE 0

(* ------------------------------- auth --------------------------------- *)

\* server.py:112-117: create_token(user_id).  A token is written as the
\* user_id its payload carries: jwt.encode signs {user_id, exp} with JWT_SECRET
\* and jwt.decode of that token, before exp, gives the payload back.
create_token(user_id) == user_id

\* What a request can carry instead of such a token: no Authorization header,
\* a string jwt.decode refuses, a token past its exp, and a well-signed token
\* whose user_id names no stored user.
NoToken == ""
ForgedToken == "forged"
ExpiredToken == "expired"
OrphanToken == "orphan"
BadTokens == {NoToken, ForgedToken, ExpiredToken, OrphanToken}

\* server.py:121-122, 129-132: jwt.decode and the payload's user_id, or the
\* detail of the 401 raised for the exception.
jwt_decode(token) ==
    CASE token = ExpiredToken -> [error |-> "Token expired", user_id |-> ""]
      [] token = ForgedToken -> [error |-> "Invalid token", user_id |-> ""]
      [] OTHER -> [error |-> "", user_id |-> token]

\* get_current_user: the user document the token's user_id names, read once,
\* when the request is authenticated; {} stands for the 401.
get_current_user(token) ==
    IF jwt_decode(token).error = "" THEN FindUser(jwt_decode(token).user_id) ELSE {}

\* server.py:32: HTTPBearer() answers a request without credentials itself:
\* 403 "Not authenticated" in the FastAPI releases before 0.122, 401 since.
HTTPBearerStatuses == {401, 403}

\* The answers a request with this token can get before its handler runs:
\* HTTPBearer's, or the HTTPException get_current_user raises.
AuthFailures(token) ==
    CASE token = NoToken ->
             {[status |-> st, detail |-> "Not authenticated"] : st \in HTTPBearerStatuses}
      [] jwt_decode(token).error # "" ->
             {[status |-> 401, detail |-> jwt_decode(token).error]}
      [] get_current_user(token) = {} ->
             {[status |-> 401, detail |-> "User not found"]}
      [] OTHER -> {}

\* A role check that any stored role passes.
IsAnyRole(user) == user.role \in {"admin", "user"}

\* get_admin_user: the role check on the document get_current_user returned.
IsAdmin(user) == user.role = "admin"

(* ---------------------------- create_order ---------------------------- *)

\* A range check that forgets the maximum.
QuantityAtLeastMin(quantity, service) == ~(quantity < service.min_quantity)

\* A range check that forgets the minimum.
QuantityAtMostMax(quantity, service) == ~(quantity > service.max_quantity)

\* server.py:199, negated: min_quantity <= quantity <= max_quantity.
QuantityInRange(quantity, service) ==
    ~(quantity < service.min_quantity \/ quantity > service.max_quantity)

\* A cost that counts whole thousands only: (quantity // 1000) * rate.
TotalCostWholeThousands(quantity, rate) == (quantity \div 1000) * 1000 * rate

\* server.py:206: (quantity / 1000) * rate, in MoneyUnit (rate in cents).
TotalCost(quantity, rate) == quantity * rate

\* A balance check with its operands exchanged.
SufficientBalanceSwapped(current_user, total_cost) == ~(total_cost < current_user.balance)

\* server.py:209, negated: the balance of the document read by get_current_user.
SufficientBalance(current_user, total_cost) == ~(current_user.balance < total_cost)

\* An Order that starts in processing.
NewOrderProcessing(n, user_id, args, total_cost) ==
    [id |-> n, user_id |-> user_id, service_id |-> args.service_id,
     link |-> args.link, quantity |-> args.quantity, total_cost |-> total_cost,
     status |-> "processing", created_at |-> n, completed_at |-> NoStamp]

\* server.py:213-219: Order(...), with uuid4 and created_at both taken from the
\* count of orders constructed.
NewOrder(n, user_id, args, total_cost) ==
    [id |-> n, user_id |-> user_id, service_id |-> args.service_id,
     link |-> args.link, quantity |-> args.quantity, total_cost |-> total_cost,
     status |-> "pending", created_at |-> n, completed_at |-> NoStamp]

\* create_order requests that may still construct an Order.
OrdersPending == Cardinality({r \in Reqs : req[r].op = "create_order" /\ req[r].pc = "svc"})

\* server.py:192: the request is authenticated; its user document is read here.
\* The token and the body are drawn from the sets given.
create_order_begin(r, tokens, service_ids, links, quantities) ==
    /\ Free(r)
    /\ nextOrder + OrdersPending < MaxOrders
    /\ \E token \in tokens, service_id \in service_ids,
          link \in links, quantity \in quantities :
         LET f == Frame("create_order", token,
                        [service_id |-> service_id, link |-> link, quantity |-> quantity])
             u == get_current_user(token)
         IN  IF u = {} THEN Respond(r, f, 401, "User not found", <<>>)
             ELSE Continue(r, [f EXCEPT !.pc = "svc", !.user = CHOOSE x \in u : TRUE])
    /\ UNCHANGED <<users, services, orders, transactions, nextOrder, nextTxn, nextService, clock>>

create_order_auth(r) ==
    create_order_begin(r, OrderTokens, ServiceIdInputs, LinkInputs, QuantityInputs)

\* server.py:194-219: the service lookup, the checks, the Order.
create_order_find_service(r) ==
    /\ At(r, "create_order", "svc")
    /\ LET f == req[r]
           s == FindOne(services, f.args.service_id)
       IN  IF s = {}
             THEN /\ Respond(r, f, 404, "Service not found", <<>>)
                  /\ UNCHANGED nextOrder
             ELSE LET service == CHOOSE x \in s : TRUE
                      total_cost == TotalCost(f.args.quantity, service.rate)
                  IN  IF ~QuantityInRange(f.args.quantity, service)
                        THEN /\ Respond(r, f, 400, "Quantity must be between", <<>>)
                             /\ UNCHANGED nextOrder
                        ELSE IF ~SufficientBalance(f.user, total_cost)
                          THEN /\ Respond(r, f, 400, "Insufficient balance", <<>>)
                               /\ UNCHANGED nextOrder
                          ELSE /\ Continue(r, [f EXCEPT !.pc = "debit",
                                                  !.loc = NewOrder(nextOrder + 1, f.user.id,
                                                                   f.args, total_cost)])
                               /\ nextOrder' = nextOrder + 1
    /\ UNCHANGED <<users, services, orders, transactions, nextTxn, nextService, clock>>

\* A guarded debit: update_one({"id": ..., "balance": {"$gte": total_cost}}, ...).
DebitBalanceIfSufficient(us, id, total_cost) ==
    IF id \in DOMAIN us /\ us[id].balance >= total_cost
      THEN IncBalance(us, id, -total_cost)
      ELSE us

\* server.py:222-225: update_one({"id": ...}, {"$inc": {"balance": -total_cost}}).
DebitBalance(us, id, total_cost) == IncBalance(us, id, -total_cost)

create_order_debit(r) ==
    /\ At(r, "create_order", "debit")
    /\ users' = DebitBalance(users, req[r].user.id, req[r].loc.total_cost)
    /\ Continue(r, [req[r] EXCEPT !.pc = "insert"])
    /\ UNCHANGED <<services, orders, transactions, nextOrder, nextTxn, nextService, clock>>

\* server.py:227-228: the order is stored and returned.
create_order_insert(r) ==
    /\ At(r, "create_order", "insert")
    /\ orders' = Append(orders, req[r].loc)
    /\ Respond(r, req[r], 200, "", <<req[r].loc>>)
    /\ UNCHANGED <<users, services, transactions, nextOrder, nextTxn, nextService, clock>>

create_order(r) ==
    \/ create_order_auth(r)
    \/ create_order_find_service(r)
    \/ create_order_debit(r)
    \/ create_order_insert(r)

(* --------------------------- request_deposit -------------------------- *)

\* An amount check that lets zero through.
AmountIsNonNegative(amount) == ~(amount < 0)

\* server.py:250, negated.
AmountIsPositive(amount) == ~(amount <= 0)

\* server.py:253-258: Transaction(...).
NewTransaction(n, user_id, amount) ==
    [id |-> n, user_id |-> user_id, amount |-> amount, type |-> "deposit",
     status |-> "pending", created_at |-> n]

\* server.py:249-258.  The token and the amount are drawn from the sets given.
request_deposit_begin(r, tokens, amounts) ==
    /\ Free(r)
    /\ \E token \in tokens, amount \in amounts :
         LET f == Frame("request_deposit", token, [amount |-> amount])
             u == get_current_user(token)
         IN  IF u = {}
               THEN /\ Respond(r, f, 401, "User not found", <<>>)
                    /\ UNCHANGED nextTxn
               ELSE IF ~AmountIsPositive(amount)
                 THEN /\ Respond(r, f, 400, "Amount must be positive", <<>>)
                      /\ UNCHANGED nextTxn
                 ELSE /\ nextTxn < MaxTxns
                      /\ Continue(r, [f EXCEPT !.pc = "insert",
                                         !.user = CHOOSE x \in u : TRUE,
                                         !.loc = NewTransaction(nextTxn + 1, token, amount)])
                      /\ nextTxn' = nextTxn + 1
    /\ UNCHANGED <<users, services, orders, transactions, nextOrder, nextService, clock>>

request_deposit_auth(r) == request_deposit_begin(r, DepositTokens, AmountInputs)

\* server.py:260-261.
request_deposit_insert(r) ==
    /\ At(r, "request_deposit", "insert")
    /\ transactions' = Append(transactions, req[r].loc)
    /\ Respond(r, req[r], 200, "Deposit request submitted", <<req[r].loc>>)
    /\ UNCHANGED <<users, services, orders, nextOrder, nextTxn, nextService, clock>>

request_deposit(r) ==
    \/ request_deposit_auth(r)
    \/ request_deposit_insert(r)

(* --------------------------- approve_deposit -------------------------- *)

\* A pending check that only refuses approved transactions.
IsNotApproved(transaction) == ~(transaction.status = "approved")

\* server.py:304, negated: the status of the document find_one returned.
IsPending(transaction) == ~(transaction.status # "pending")

\* server.py:307.
NewStatus(action) == IF action = "approve" THEN "approved" ELSE "rejected"

\* server.py:308: update_one({"id": id}, {"$set": {"status": new_status}}).
SetTransactionStatus(txns, id, new_status) ==
    LET i == MatchIndex(txns, id)
    IN  IF i = 0 THEN txns ELSE [txns EXCEPT ![i].status = new_status]

\* A credit to the admin who approves.
CreditBalanceToAdmin(us, transaction) == IncBalance(us, "admin", transaction.amount)

\* server.py:312-315: the credit, to the transaction's user.
CreditBalance(us, transaction) == IncBalance(us, transaction.user_id, transaction.amount)

\* server.py:296-298.  The token and the action are drawn from the sets given.
approve_deposit_begin(r, tokens, actions) ==
    /\ Free(r)
    /\ \E token \in tokens, transaction_id \in TxnIdInputs, action \in actions :
         LET f == Frame("approve_deposit", token,
                        [transaction_id |-> transaction_id, action |-> action])
             u == get_current_user(token)
         IN  IF u = {} THEN Respond(r, f, 401, "User not found", <<>>)
             ELSE IF ~IsAdmin(CHOOSE x \in u : TRUE)
               THEN Respond(r, f, 403, "Admin access required", <<>>)
             ELSE IF action \notin {"approve", "reject"}
               THEN Respond(r, f, 400, "Invalid action", <<>>)
             ELSE Continue(r, [f EXCEPT !.pc = "find", !.user = CHOOSE x \in u : TRUE])
    /\ UNCHANGED <<users, services, orders, transactions, nextOrder, nextTxn, nextService, clock>>

approve_deposit_auth(r) == approve_deposit_begin(r, AdminTokens, ActionInputs)

\* server.py:300-307.
approve_deposit_find(r) ==
    /\ At(r, "approve_deposit", "find")
    /\ LET f == req[r]
           t == FindOne(transactions, f.args.transaction_id)
       IN  IF t = {} THEN Respond(r, f, 404, "Transaction not found", <<>>)
           ELSE IF ~IsPending(CHOOSE x \in t : TRUE)
             THEN Respond(r, f, 400, "Transaction already processed", <<>>)
           ELSE Continue(r, [f EXCEPT !.pc = "set",
                                !.loc = [transaction |-> CHOOSE x \in t : TRUE,
                                         new_status |-> NewStatus(f.args.action)]])
    /\ UNCHANGED <<users, services, orders, transactions, nextOrder, nextTxn, nextService, clock>>

\* An approval that answers after the status update, without the credit.
approve_deposit_set_only(r) ==
    /\ At(r, "approve_deposit", "set")
    /\ transactions' = SetTransactionStatus(transactions, req[r].args.transaction_id,
                                            req[r].loc.new_status)
    /\ IF req[r].args.action = "approve"
         THEN Respond(r, req[r], 200, "Deposit approved", <<>>)
         ELSE Respond(r, req[r], 200, "Deposit rejected", <<>>)
    /\ UNCHANGED <<users, services, orders, nextOrder, nextTxn, nextService, clock>>

\* server.py:308-311.
approve_deposit_set(r) ==
    /\ At(r, "approve_deposit", "set")
    /\ transactions' = SetTransactionStatus(transactions, req[r].args.transaction_id,
                                            req[r].loc.new_status)
    /\ IF req[r].args.action = "approve"
         THEN Continue(r, [req[r] EXCEPT !.pc = "credit"])
         ELSE Respond(r, req[r], 200, "Deposit rejected", <<>>)
    /\ UNCHANGED <<users, services, orders, nextOrder, nextTxn, nextService, clock>>

\* server.py:312-317.
approve_deposit_credit(r) ==
    /\ At(r, "approve_deposit", "credit")
    /\ users' = CreditBalance(users, req[r].loc.transaction)
    /\ Respond(r, req[r], 200, "Deposit approved", <<>>)
    /\ UNCHANGED <<services, orders, transactions, nextOrder, nextTxn, nextService, clock>>

approve_deposit(r) ==
    \/ approve_deposit_auth(r)
    \/ approve_deposit_find(r)
    \/ approve_deposit_set(r)
    \/ approve_deposit_credit(r)

(* ------------------------- update_order_status ------------------------ *)

\* A status list that also admits "refunded".
OrderStatusesWithRefunded == {"pending", "processing", "completed", "cancelled", "refunded"}

\* server.py:277.
OrderStatuses == {"pending", "processing", "completed", "cancelled"}

\* An update_data that resets completed_at on every other status.
UpdateDataClearing(status, now) ==
    IF status = "completed"
      THEN [status |-> status, completed_at |-> now]
      ELSE [status |-> status, completed_at |-> NoStamp]

\* server.py:280-282: update_data; the stamp is the time of the request.
UpdateData(status, now) ==
    IF status = "completed"
      THEN [status |-> status, completed_at |-> now]
      ELSE [status |-> status]

\* A replacement of the document that keeps its id but not its link.
SetFieldsDroppingLink(order, update_data) ==
    [k \in DOMAIN order |-> IF k \in DOMAIN update_data THEN update_data[k]
                            ELSE IF k = "link" THEN "" ELSE order[k]]

\* {"$set": update_data} applied to one order document.
SetFields(order, update_data) ==
    [k \in DOMAIN order |-> IF k \in DOMAIN update_data THEN update_data[k] ELSE order[k]]

\* server.py:284-285: result.modified_count of the update_one: 1 when a
\* document matches and the $set changes it, 0 otherwise.
ModifiedCount(os, id, update_data) ==
    LET i == MatchIndex(os, id)
    IN  IF i # 0 /\ SetFields(os[i], update_data) # os[i] THEN 1 ELSE 0

\* server.py:284: update_one({"id": order_id}, {"$set": update_data}).
UpdateOrder(os, id, update_data) ==
    LET i == MatchIndex(os, id)
    IN  IF i = 0 THEN os ELSE [os EXCEPT ![i] = SetFields(os[i], update_data)]

\* server.py:276-282.  The token and the status are drawn from the sets given.
update_order_status_begin(r, tokens, statuses) ==
    /\ Free(r)
    /\ \E token \in tokens, order_id \in OrderIdInputs, status \in statuses :
         LET f == Frame("update_order_status", token,
                        [order_id |-> order_id, status |-> status])
             u == get_current_user(token)
         IN  IF u = {}
               THEN /\ Respond(r, f, 401, "User not found", <<>>)
                    /\ UNCHANGED clock
               ELSE IF ~IsAdmin(CHOOSE x \in u : TRUE)
                 THEN /\ Respond(r, f, 403, "Admin access required", <<>>)
                      /\ UNCHANGED clock
                 ELSE IF status \notin OrderStatuses
                   THEN /\ Respond(r, f, 400, "Invalid status", <<>>)
                        /\ UNCHANGED clock
                   ELSE /\ status = "completed" => clock < MaxStamps
                        /\ Continue(r, [f EXCEPT !.pc = "update",
                                           !.user = CHOOSE x \in u : TRUE,
                                           !.loc = UpdateData(status, clock + 1)])
                        /\ clock' = IF status = "completed" THEN clock + 1 ELSE clock
    /\ UNCHANGED <<users, services, orders, transactions, nextOrder, nextTxn, nextService>>

update_order_status_auth(r) == update_order_status_begin(r, AdminTokens, StatusInputs)

\* An update that credits the order's total_cost back to its owner on cancelled.
update_order_status_refund(r) ==
    /\ At(r, "update_order_status", "update")
    /\ orders' = UpdateOrder(orders, req[r].args.order_id, req[r].loc)
    /\ users' = IF req[r].args.status = "cancelled"
                      /\ MatchIndex(orders, req[r].args.order_id) # 0
                  THEN LET o == orders[MatchIndex(orders, req[r].args.order_id)]
                       IN  IncBalance(users, o.user_id, o.total_cost)
                  ELSE users
    /\ IF ModifiedCount(orders, req[r].args.order_id, req[r].loc) = 0
         THEN Respond(r, req[r], 404, "Order not found", <<>>)
         ELSE Respond(r, req[r], 200, "Order status updated", <<>>)
    /\ UNCHANGED <<services, transactions, nextOrder, nextTxn, nextService, clock>>

\* server.py:284-288.
update_order_status_update(r) ==
    /\ At(r, "update_order_status", "update")
    /\ orders' = UpdateOrder(orders, req[r].args.order_id, req[r].loc)
    /\ IF ModifiedCount(orders, req[r].args.order_id, req[r].loc) = 0
         THEN Respond(r, req[r], 404, "Order not found", <<>>)
         ELSE Respond(r, req[r], 200, "Order status updated", <<>>)
    /\ UNCHANGED <<users, services, transactions, nextOrder, nextTxn, nextService, clock>>

update_order_status(r) ==
    \/ update_order_status_auth(r)
    \/ update_order_status_update(r)

(* ---------------------------- create_service -------------------------- *)

\* server.py:185: Service(**service_data.model_dump()); the ids follow the seed's.
NewService(n, service_data) ==
    [id |-> Len(SeedServices) + n, rate |-> service_data.rate,
     min_quantity |-> service_data.min_quantity,
     max_quantity |-> service_data.max_quantity]

\* server.py:184-185.
create_service_auth(r) ==
    /\ Free(r)
    /\ \E token \in AdminTokens, service_data \in ServiceInputs :
         LET f == Frame("create_service", token, service_data)
             u == get_current_user(token)
         IN  IF u = {}
               THEN /\ Respond(r, f, 401, "User not found", <<>>)
                    /\ UNCHANGED nextService
               ELSE IF ~IsAdmin(CHOOSE x \in u : TRUE)
                 THEN /\ Respond(r, f, 403, "Admin access required", <<>>)
                      /\ UNCHANGED nextService
                 ELSE /\ nextService < MaxNewServices
                      /\ Continue(r, [f EXCEPT !.pc = "insert",
                                         !.user = CHOOSE x \in u : TRUE,
                                         !.loc = NewService(nextService + 1, service_data)])
                      /\ nextService' = nextService + 1
    /\ UNCHANGED <<users, services, orders, transactions, nextOrder, nextTxn, clock>>

\* server.py:186-187.
create_service_insert(r) ==
    /\ At(r, "create_service", "insert")
    /\ services' = Append(services, req[r].loc)
    /\ Respond(r, req[r], 200, "", <<req[r].loc>>)
    /\ UNCHANGED <<users, orders, transactions, nextOrder, nextTxn, nextService, clock>>

create_service(r) ==
    \/ create_service_auth(r)
    \/ create_service_insert(r)

(* ----------------------- get_user_orders, get_order -------------------- *)

\* A find without its sort: the documents in natural order.
NaturalOrder(docs) == docs

\* .sort("created_at", -1): the documents by created_at, latest first.
RECURSIVE SortByCreatedAtDesc(_)
SortByCreatedAtDesc(docs) ==
    IF docs = <<>> THEN <<>>
    ELSE LET i == CHOOSE i \in 1..Len(docs) :
                     \A j \in 1..Len(docs) :
                        \/ docs[j].created_at < docs[i].created_at
                        \/ (docs[j].created_at = docs[i].created_at /\ i <= j)
             rest == [k \in 1..(Len(docs) - 1) |-> IF k < i THEN docs[k] ELSE docs[k + 1]]
         IN  <<docs[i]>> \o SortByCreatedAtDesc(rest)

\* server.py:232: find({"user_id": current_user['id']}).sort("created_at", -1).
UserOrders(os, user_id) ==
    SortByCreatedAtDesc(SelectSeq(os, LAMBDA o : o.user_id = user_id))

\* A lookup by id alone: find_one({"id": order_id}).
FindOrderById(os, order_id, user_id) ==
    LET any == SelectSeq(os, LAMBDA o : o.id = order_id)
    IN  IF any = <<>> THEN {} ELSE {any[1]}

\* server.py:237: find_one({"id": order_id, "user_id": current_user['id']}).
FindUserOrder(os, order_id, user_id) ==
    LET own == SelectSeq(os, LAMBDA o : o.id = order_id /\ o.user_id = user_id)
    IN  IF own = <<>> THEN {} ELSE {own[1]}

\* The first step of a handler that depends on get_current_user alone.
UserBegin(r, op, tokens, args, next) ==
    /\ Free(r)
    /\ \E token \in tokens :
         LET f == Frame(op, token, args)
             u == get_current_user(token)
         IN  IF u = {} THEN Respond(r, f, 401, "User not found", <<>>)
             ELSE Continue(r, [f EXCEPT !.pc = next, !.user = CHOOSE x \in u : TRUE])
    /\ UNCHANGED <<users, services, orders, transactions, nextOrder, nextTxn, nextService, clock>>

\* The first step of a handler that depends on get_admin_user.
AdminBegin(r, op, tokens, args, next) ==
    /\ Free(r)
    /\ \E token \in tokens :
         LET f == Frame(op, token, args)
             u == get_current_user(token)
         IN  IF u = {} THEN Respond(r, f, 401, "User not found", <<>>)
             ELSE IF ~IsAdmin(CHOOSE x \in u : TRUE)
               THEN Respond(r, f, 403, "Admin access required", <<>>)
             ELSE Continue(r, [f EXCEPT !.pc = next, !.user = CHOOSE x \in u : TRUE])
    /\ UNCHANGED <<users, services, orders, transactions, nextOrder, nextTxn, nextService, clock>>

get_user_orders_auth(r) == UserBegin(r, "get_user_orders", OrderTokens, <<>>, "find")

\* server.py:232-233.
get_user_orders_find(r) ==
    /\ At(r, "get_user_orders", "find")
    /\ Respond(r, req[r], 200, "", UserOrders(orders, req[r].user.id))
    /\ UNCHANGED <<users, services, orders, transactions, nextOrder, nextTxn, nextService, clock>>

get_user_orders(r) ==
    \/ get_user_orders_auth(r)
    \/ get_user_orders_find(r)

get_order_auth(r) ==
    \E order_id \in OrderIdInputs :
        UserBegin(r, "get_order", OrderTokens, [order_id |-> order_id], "find")

\* server.py:237-240.
get_order_find(r) ==
    /\ At(r, "get_order", "find")
    /\ LET order == FindUserOrder(orders, req[r].args.order_id, req[r].user.id)
       IN  IF order = {} THEN Respond(r, req[r], 404, "Order not found", <<>>)
           ELSE Respond(r, req[r], 200, "", <<CHOOSE x \in order : TRUE>>)
    /\ UNCHANGED <<users, services, orders, transactions, nextOrder, nextTxn, nextService, clock>>

get_order(r) ==
    \/ get_order_auth(r)
    \/ get_order_find(r)

(* ------------------------ admin listings and stats --------------------- *)

\* server.py:267: db.users.find({}).
AllUsers(us) ==
    LET RECURSIVE List(_)
        List(ids) == IF ids = {} THEN <<>>
                     ELSE LET u == CHOOSE x \in ids : TRUE
                          IN  <<us[u]>> \o List(ids \ {u})
    IN  List(DOMAIN us)

\* server.py:292: find({"type": "deposit"}).sort("created_at", -1).
Deposits(txns) == SortByCreatedAtDesc(SelectSeq(txns, LAMBDA t : t.type = "deposit"))

\* server.py:323: count_documents({"type": "deposit", "status": "pending"}).
PendingDeposits(txns) ==
    Len(SelectSeq(txns, LAMBDA t : t.type = "deposit" /\ t.status = "pending"))

get_all_users_auth(r) == AdminBegin(r, "get_all_users", AdminTokens, <<>>, "find")

\* server.py:267-268.
get_all_users_find(r) ==
    /\ At(r, "get_all_users", "find")
    /\ Respond(r, req[r], 200, "", AllUsers(users))
    /\ UNCHANGED <<users, services, orders, transactions, nextOrder, nextTxn, nextService, clock>>

get_all_users(r) ==
    \/ get_all_users_auth(r)
    \/ get_all_users_find(r)

get_all_orders_auth(r) == AdminBegin(r, "get_all_orders", AdminTokens, <<>>, "find")

\* server.py:272-273.
get_all_orders_find(r) ==
    /\ At(r, "get_all_orders", "find")
    /\ Respond(r, req[r], 200, "", SortByCreatedAtDesc(orders))
    /\ UNCHANGED <<users, services, orders, transactions, nextOrder, nextTxn, nextService, clock>>

get_all_orders(r) ==
    \/ get_all_orders_auth(r)
    \/ get_all_orders_find(r)

get_deposits_auth(r) == AdminBegin(r, "get_deposits", AdminTokens, <<>>, "find")

\* server.py:292-293.
get_deposits_find(r) ==
    /\ At(r, "get_deposits", "find")
    /\ Respond(r, req[r], 200, "", Deposits(transactions))
    /\ UNCHANGED <<users, services, orders, transactions, nextOrder, nextTxn, nextService, clock>>

get_deposits(r) ==
    \/ get_deposits_auth(r)
    \/ get_deposits_find(r)

get_stats_auth(r) == AdminBegin(r, "get_stats", AdminTokens, <<>>, "count_users")

\* server.py:321.
get_stats_count_users(r) ==
    /\ At(r, "get_stats", "count_users")
    /\ Continue(r, [req[r] EXCEPT !.pc = "count_orders",
                                  !.loc = [total_users |-> Cardinality(DOMAIN users)]])
    /\ UNCHANGED <<users, services, orders, transactions, nextOrder, nextTxn, nextService, clock>>

\* server.py:322.
get_stats_count_orders(r) ==
    /\ At(r, "get_stats", "count_orders")
    /\ Continue(r, [req[r] EXCEPT !.pc = "count_deposits",
                                  !.loc = [total_users |-> req[r].loc.total_users,
                                           total_orders |-> Len(orders)]])
    /\ UNCHANGED <<users, services, orders, transactions, nextOrder, nextTxn, nextService, clock>>

\* server.py:323-329.
get_stats_count_deposits(r) ==
    /\ At(r, "get_stats", "count_deposits")
    /\ Respond(r, req[r], 200, "",
               <<[total_users |-> req[r].loc.total_users,
                  total_orders |-> req[r].loc.total_orders,
                  pending_deposits |-> PendingDeposits(transactions)]>>)
    /\ UNCHANGED <<users, services, orders, transactions, nextOrder, nextTxn, nextService, clock>>

get_stats(r) ==
    \/ get_stats_auth(r)
    \/ get_stats_count_users(r)
    \/ get_stats_count_orders(r)
    \/ get_stats_count_deposits(r)

(* --------------------------- register, login -------------------------- *)

\* server.py:106-107: bcrypt.hashpw(password, salt): the salt and the digest
\* of the password under that salt.
hash_password(password, salt) == <<salt, password>>

\* server.py:109-110: bcrypt.checkpw: the password hashed under the salt of
\* the stored hash is the stored hash.
verify_password(password, hashed) == hash_password(password, hashed[1]) = hashed

\* db.users.find_one({"email": email}): the first such document in natural order.
FindUserByEmail(us, email) ==
    LET m == {id \in DOMAIN us : us[id].email = email}
    IN  IF m = {} THEN {}
        ELSE {us[CHOOSE id \in m : \A o \in m : us[id].inserted <= us[o].inserted]}

\* db.users.insert_one(user_dict).
InsertUser(us, user) ==
    [id \in DOMAIN us \cup {user.id} |->
        IF id \in DOMAIN us THEN us[id]
        ELSE [user EXCEPT !.inserted = Cardinality(DOMAIN us) + 1]]

\* User() objects constructed so far: the stored ones and those of the
\* register requests between their find_one and their insert_one.
UsersConstructed ==
    Cardinality(DOMAIN users \ DOMAIN SeedUsers)
        + Cardinality({r \in Reqs : req[r].op = "register" /\ req[r].pc = "insert"})

\* A User() constructed with the admin role.
NewUserAsAdmin(n, email, password) ==
    [id |-> NewUserIds[n], email |-> email,
     password_hash |-> hash_password(password, NewUserIds[n]),
     balance |-> 0, role |-> "admin", inserted |-> 0]

\* server.py:147-154: User(email, name) and its password_hash.
NewUser(n, email, password) ==
    [id |-> NewUserIds[n], email |-> email,
     password_hash |-> hash_password(password, NewUserIds[n]),
     balance |-> 0, role |-> "user", inserted |-> 0]

\* The User model of a stored document: what register, login and get_me answer.
UserModel(doc) == [id |-> doc.id, email |-> doc.email, balance |-> doc.balance,
                   role |-> doc.role]

RegistersPending ==
    Cardinality({r \in Reqs : req[r].op = "register" /\ req[r].pc = "find"})

\* server.py:141-142: a register request arrives; no token is asked for.
register_begin(r) ==
    /\ Free(r)
    /\ UsersConstructed + RegistersPending < MaxRegistrations
    /\ \E email \in EmailInputs, password \in PasswordInputs :
         Continue(r, [Frame("register", NoToken, [email |-> email, password |-> password])
                         EXCEPT !.pc = "find"])
    /\ UNCHANGED <<users, services, orders, transactions, nextOrder, nextTxn, nextService, clock>>

\* server.py:143-154.
register_find(r) ==
    /\ At(r, "register", "find")
    /\ LET f == req[r]
       IN  IF FindUserByEmail(users, f.args.email) # {}
             THEN Respond(r, f, 400, "Email already registered", <<>>)
             ELSE Continue(r, [f EXCEPT !.pc = "insert",
                                 !.loc = NewUser(UsersConstructed + 1, f.args.email,
                                                 f.args.password)])
    /\ UNCHANGED <<users, services, orders, transactions, nextOrder, nextTxn, nextService, clock>>

\* server.py:156-159: the user is stored; the answer is its token and the user.
register_insert(r) ==
    /\ At(r, "register", "insert")
    /\ users' = InsertUser(users, req[r].loc)
    /\ Respond(r, req[r], 200, "",
               <<[token |-> create_token(req[r].loc.id), user |-> UserModel(req[r].loc)]>>)
    /\ UNCHANGED <<services, orders, transactions, nextOrder, nextTxn, nextService, clock>>

register(r) ==
    \/ register_begin(r)
    \/ register_find(r)
    \/ register_insert(r)

\* server.py:161-162: a login request arrives.
login_begin(r) ==
    /\ Free(r)
    /\ \E email \in EmailInputs, password \in PasswordInputs :
         Continue(r, [Frame("login", NoToken, [email |-> email, password |-> password])
                         EXCEPT !.pc = "find"])
    /\ UNCHANGED <<users, services, orders, transactions, nextOrder, nextTxn, nextService, clock>>

\* server.py:163-169.
login_find(r) ==
    /\ At(r, "login", "find")
    /\ LET f == req[r]
           u == FindUserByEmail(users, f.args.email)
       IN  IF u = {} \/ \E x \in u : ~verify_password(f.args.password, x.password_hash)
             THEN Respond(r, f, 401, "Invalid credentials", <<>>)
             ELSE Respond(r, f, 200, "",
                          <<[token |-> create_token((CHOOSE x \in u : TRUE).id),
                             user |-> UserModel(CHOOSE x \in u : TRUE)]>>)
    /\ UNCHANGED <<users, services, orders, transactions, nextOrder, nextTxn, nextService, clock>>

login(r) ==
    \/ login_begin(r)
    \/ login_find(r)

\* server.py:171-173 and 244-246: get_me and get_balance answer from the
\* document get_current_user read; any token ever issued may be presented.
get_me(r) ==
    /\ Free(r)
    /\ \E token \in DOMAIN users :
         \E u \in get_current_user(token) :
             Respond(r, Frame("get_me", token, <<>>), 200, "", <<UserModel(u)>>)
    /\ UNCHANGED <<users, services, orders, transactions, nextOrder, nextTxn, nextService, clock>>

get_balance(r) ==
    /\ Free(r)
    /\ \E token \in DOMAIN users :
         \E u \in get_current_user(token) :
             Respond(r, Frame("get_balance", token, <<>>), 200, "",
                     <<[balance |-> u.balance]>>)
    /\ UNCHANGED <<users, services, orders, transactions, nextOrder, nextTxn, nextService, clock>>

\* The endpoints that depend on get_current_user or get_admin_user.
ProtectedOps ==
    {"get_me", "create_order", "get_user_orders", "get_order", "get_balance",
     "request_deposit", "create_service", "update_order_status", "approve_deposit",
     "get_all_users", "get_all_orders", "get_deposits", "get_stats"}

\* server.py:119-132: Depends(security) and get_current_user run before the
\* handler; when either raises, the request is answered and no handler runs.
get_current_user_raises(r) ==
    /\ Free(r)
    /\ \E op \in ProtectedOps, token \in BadTokens :
         \E e \in AuthFailures(token) :
             Respond(r, Frame(op, token, <<>>), e.status, e.detail, <<>>)
    /\ UNCHANGED <<users, services, orders, transactions, nextOrder, nextTxn, nextService, clock>>

(* ---------------------------- specifications -------------------------- *)

Init ==
    /\ users = SeedUsers
    /\ services = SeedServices
    /\ orders = <<>>
    /\ transactions = <<>>
    /\ req = [r \in Reqs |-> Idle]
    /\ nextOrder = 0
    /\ nextTxn = 0
    /\ nextService = 0
    /\ clock = 0
    /\ resp = NoResp

\* The ledger: placements, deposit requests and resolutions, interleaved at
\* their storage calls.
Next ==
    \E r \in Reqs :
        \/ create_order(r)
        \/ request_deposit(r)
        \/ approve_deposit(r)

Spec == Init /\ [][Next]_vars

\* The whole API, one request at a time.
NextApi ==
    \E r \in {1} :
        \/ create_order(r)
        \/ request_deposit(r)
        \/ approve_deposit(r)
        \/ update_order_status(r)
        \/ create_service(r)
        \/ get_user_orders(r)
        \/ get_order(r)
        \/ get_all_users(r)
        \/ get_all_orders(r)
        \/ get_deposits(r)
        \/ get_stats(r)

SpecApi == Init /\ [][NextApi]_vars

\* The whole API with login, get_me and get_balance, one request at a time.
NextAll ==
    \/ NextApi
    \/ \E r \in {1} :
           \/ login(r)
           \/ get_me(r)
           \/ get_balance(r)

SpecAll == Init /\ [][NextAll]_vars

\* The ledger with each user's placements one at a time: a create_order is
\* accepted only when no other create_order of the same user is in flight.
SerialPlacement(r) ==
    \A q \in Reqs \ {r} :
        ~(req[q].op = "create_order" /\ req[q].token = req'[r].token)

NextSerial ==
    \E r \in Reqs :
        \/ create_order_auth(r) /\ SerialPlacement(r)
        \/ create_order_find_service(r)
        \/ create_order_debit(r)
        \/ create_order_insert(r)
        \/ request_deposit(r)
        \/ approve_deposit(r)

SpecSerial == Init /\ [][NextSerial]_vars

\* The example scenario: placements on the service of rate 2.50 by a user whose
\* balance comes from approved deposits, interleaved at their storage calls.
NextExample ==
    \E r \in Reqs :
        \/ create_order_begin(r, ExampleTokens, ExampleServiceIds, ExampleLinks,
                              ExampleQuantities)
        \/ create_order_find_service(r)
        \/ create_order_debit(r)
        \/ create_order_insert(r)
        \/ request_deposit_begin(r, ExampleTokens, ExampleAmounts)
        \/ request_deposit_insert(r)
        \/ approve_deposit_begin(r, ExampleAdminTokens, ExampleActions)
        \/ approve_deposit_find(r)
        \/ approve_deposit_set(r)
        \/ approve_deposit_credit(r)

SpecExample == Init /\ [][NextExample]_vars

\* The order book: placements, status updates and the two order listings,
\* interleaved at their storage calls.
NextBook ==
    \E r \in Reqs :
        \/ create_order_begin(r, BookTokens, BookServiceIds, LinkInputs, BookQuantities)
        \/ create_order_find_service(r)
        \/ create_order_debit(r)
        \/ create_order_insert(r)
        \/ update_order_status_begin(r, BookAdminTokens, BookStatuses)
        \/ update_order_status_update(r)
        \/ UserBegin(r, "get_user_orders", BookTokens, <<>>, "find")
        \/ get_user_orders_find(r)
        \/ AdminBegin(r, "get_all_orders", BookAdminTokens, <<>>, "find")
        \/ get_all_orders_find(r)

SpecBook == Init /\ [][NextBook]_vars

\* The status machine: one placement at a time, started while nothing else is
\* in flight, and status updates interleaved with it and with each other at
\* their storage calls.
NextMachine ==
    \E r \in Reqs :
        \/ r = 1 /\ create_order_begin(r, MachineTokens, BookServiceIds, LinkInputs, BookQuantities)
        \/ create_order_find_service(r)
        \/ create_order_debit(r)
        \/ create_order_insert(r)
        \/ update_order_status_begin(r, AdminTokens, MachineStatuses)
        \/ update_order_status_update(r)

SpecMachine == Init /\ [][NextMachine]_vars

\* Accounts: registrations and logins interleaved at their storage calls, the
\* endpoints that answer from the authenticated user, and unauthenticated
\* requests to every protected endpoint.
NextAuth ==
    \E r \in Reqs :
        \/ register(r)
        \/ login(r)
        \/ get_me(r)
        \/ get_balance(r)
        \/ get_current_user_raises(r)

SpecAuth == Init /\ [][NextAuth]_vars

\* Roles: registrations next to the writes to db.users (the debit of an order,
\* the credit of a deposit) and to an admin endpoint, the admin endpoints
\* called with the token of any stored user, registered ones included; a
\* placement or a deposit request starts while nothing else is in flight.
NextRoles ==
    \E r \in Reqs :
        \/ register(r)
        \/ r = 1 /\ create_order_begin(r, MachineTokens, BookServiceIds, LinkInputs, BookQuantities)
        \/ create_order_find_service(r)
        \/ create_order_debit(r)
        \/ create_order_insert(r)
        \/ r = 1 /\ request_deposit_begin(r, DepositTokens, {100 * MoneyUnit})
        \/ request_deposit_insert(r)
        \/ approve_deposit_begin(r, DOMAIN users, ExampleActions)
        \/ approve_deposit_find(r)
        \/ approve_deposit_set(r)
        \/ approve_deposit_credit(r)
        \/ AdminBegin(r, "get_all_users", DOMAIN users, <<>>, "find")
        \/ get_all_users_find(r)

SpecRoles == Init /\ [][NextRoles]_vars

\* Deposits: requests and decisions interleaved at their storage calls.
NextDeposits ==
    \E r \in Reqs :
        \/ request_deposit(r)
        \/ approve_deposit(r)

\* A storage call that was awaited completes and the event loop resumes the
\* handler: every step after the first of a started request is taken.
Resumed(r) ==
    \/ request_deposit_insert(r)
    \/ approve_deposit_find(r)
    \/ approve_deposit_set(r)
    \/ approve_deposit_credit(r)

SpecDeposits ==
    Init /\ [][NextDeposits]_vars /\ \A r \in Reqs : WF_vars(Resumed(r))

(* ------------------------------ properties ---------------------------- *)

RECURSIVE SumOf(_, _)
\* The sum of field k over a sequence of documents.
SumOf(docs, k) == IF docs = <<>> THEN 0 ELSE docs[1][k] + SumOf(Tail(docs), k)

OrdersOf(u) == SelectSeq(orders, LAMBDA o : o.user_id = u)
TransactionsOf(u) == SelectSeq(transactions, LAMBDA t : t.user_id = u)
ApprovedOf(u) == SelectSeq(transactions, LAMBDA t : t.user_id = u /\ t.status = "approved")
Quiescent == \A r \in Reqs : req[r].pc = "idle"
Stepped(r) == req'[r] # req[r]
StoreUnchanged == UNCHANGED <<users, services, orders, transactions>>

\* C1: no overdraft: no user's stored balance is ever negative.
C1_NoOverdraft == \A u \in DOMAIN users : users[u].balance >= 0

\* C2: ledger conservation: with each user's placements one at a time, whenever
\* no request is in flight every balance is the initial balance plus the user's
\* approved deposits minus the total_cost of the user's orders.
C2_LedgerConservation ==
    Quiescent =>
        \A u \in DOMAIN users :
            users[u].balance =
                SeedUsers[u].balance + SumOf(ApprovedOf(u), "amount")
                                     - SumOf(OrdersOf(u), "total_cost")

\* C3: the overdraft race: a placement that passed the balance check against
\* the balance it read debits its total_cost whatever the stored balance has
\* become, and goes on to store its order; so two placements of one user that
\* both read the balance before either debit both succeed.
C3_UnguardedDebit ==
    [][\A r \in Reqs :
          (At(r, "create_order", "debit") /\ Stepped(r)) =>
              /\ req[r].loc.total_cost <= req[r].user.balance
              /\ users'[req[r].user.id].balance
                     = users[req[r].user.id].balance - req[r].loc.total_cost
              /\ req'[r].pc = "insert"
              /\ req'[r].loc = req[r].loc]_vars

\* Two stored orders of one user, each of them within the initial balance and
\* together above it, a negative balance, and nothing in flight.
C3_Overdrawn ==
    /\ Quiescent
    /\ \E u \in DOMAIN users :
          /\ TransactionsOf(u) = <<>>
          /\ Len(OrdersOf(u)) = 2
          /\ \A i \in 1..2 : OrdersOf(u)[i].total_cost <= SeedUsers[u].balance
          /\ SumOf(OrdersOf(u), "total_cost") > SeedUsers[u].balance
          /\ users[u].balance < 0

\* C4: a deposit is resolved once: at most one approve_deposit request is past
\* the pending check of a transaction, and the owner is credited its amount at
\* most once.
C4_ResolvedOnce ==
    /\ \A i \in 1..Len(transactions) :
          Cardinality({r \in Reqs : /\ req[r].op = "approve_deposit"
                                    /\ req[r].pc \in {"set", "credit"}
                                    /\ req[r].args.transaction_id = transactions[i].id}) <= 1
    /\ \A u \in DOMAIN users :
          users[u].balance <= SeedUsers[u].balance + SumOf(TransactionsOf(u), "amount")

\* C5: sequential idempotence of approve_deposit: a call that answers 200 leaves
\* its transaction not pending; a transaction that is not pending never becomes
\* pending again; and a call that finds its transaction not pending answers
\* 400 "Transaction already processed" and changes no transaction and no
\* balance (nor does its authentication step).
C5_SecondResolveFails ==
    [][/\ (resp'.op = "approve_deposit" /\ resp'.status = 200) =>
              \E r \in Reqs :
                  /\ At(r, "approve_deposit", IF resp'.detail = "Deposit approved"
                                                THEN "credit" ELSE "set")
                  /\ Stepped(r)
                  /\ \A t \in FindOne(transactions', req[r].args.transaction_id) :
                         t.status # "pending"
       /\ \A i \in 1..Len(transactions) :
              transactions[i].status # "pending" =>
                  /\ Len(transactions') >= i
                  /\ transactions'[i].id = transactions[i].id
                  /\ transactions'[i].status # "pending"
       /\ \A r \in Reqs :
              /\ (Free(r) /\ req'[r].op = "approve_deposit") => StoreUnchanged
              /\ (/\ At(r, "approve_deposit", "find")
                  /\ Stepped(r)
                  /\ \E t \in FindOne(transactions, req[r].args.transaction_id) :
                         t.status # "pending")
                     => /\ resp'.op = "approve_deposit"
                        /\ resp'.status = 400
                        /\ resp'.detail = "Transaction already processed"
                        /\ req'[r] = Idle
                        /\ StoreUnchanged]_vars

\* A second call on a resolved transaction was just refused: the transaction
\* is approved, its owner credited once, nothing in flight.
C5_Refused ==
    /\ Quiescent
    /\ resp.op = "approve_deposit"
    /\ resp.status = 400
    /\ resp.detail = "Transaction already processed"
    /\ Len(transactions) = 1
    /\ transactions[1].status = "approved"
    /\ users[transactions[1].user_id].balance
           = SeedUsers[transactions[1].user_id].balance + transactions[1].amount

\* C6: settlement is one unit: in every state the balance of a user without
\* deposits is the initial balance minus the total_cost of the stored orders:
\* no debit without its order, no order without its debit.
C6_SettlementIsOneUnit ==
    \A u \in DOMAIN users :
        TransactionsOf(u) = <<>> =>
            users[u].balance = SeedUsers[u].balance - SumOf(OrdersOf(u), "total_cost")

\* C7: a create_order for an existing service with a quantity below
\* min_quantity or above max_quantity answers 400 "Quantity must be between",
\* whatever balance it read, and changes no balance and no order.
C7_QuantityOutOfRange ==
    [][\A r \in Reqs :
          /\ (Free(r) /\ req'[r].op = "create_order") => StoreUnchanged
          /\ (/\ At(r, "create_order", "svc")
              /\ Stepped(r)
              /\ \E s \in FindOne(services, req[r].args.service_id) :
                     \/ req[r].args.quantity < s.min_quantity
                     \/ req[r].args.quantity > s.max_quantity)
                 => /\ resp'.op = "create_order"
                    /\ resp'.status = 400
                    /\ resp'.detail = "Quantity must be between"
                    /\ req'[r] = Idle
                    /\ StoreUnchanged]_vars

\* An out-of-range create_order was just refused.
C7_Refused ==
    /\ resp.op = "create_order"
    /\ resp.status = 400
    /\ resp.detail = "Quantity must be between"

C9_OrderIsolation ==
    [][\A r \in Reqs :
          /\ (At(r, "get_user_orders", "find") /\ Stepped(r)) =>
                 /\ resp'.op = "get_user_orders"
                 /\ \A i \in 1..Len(resp'.result) : resp'.result[i].user_id = req[r].token
          /\ (At(r, "get_order", "find") /\ Stepped(r)) =>
                 /\ resp'.op = "get_order"
                 /\ IF \E i \in 1..Len(orders) :
                          /\ orders[i].id = req[r].args.order_id
                          /\ orders[i].user_id = req[r].token
                      THEN /\ resp'.status = 200
                           /\ Len(resp'.result) = 1
                           /\ resp'.result[1].id = req[r].args.order_id
                           /\ resp'.result[1].user_id = req[r].token
                      ELSE /\ resp'.status = 404
                           /\ resp'.detail = "Order not found"
                           /\ resp'.result = <<>>]_vars

\* get_order just answered 404 although every order id a caller can name is
\* stored, and both users own an order: the order asked for is another user's.
C9_ForeignOrderHidden ==
    /\ resp.op = "get_order"
    /\ resp.status = 404
    /\ \A id \in OrderIdInputs : \E i \in 1..Len(orders) : orders[i].id = id
    /\ \E i, j \in 1..Len(orders) : orders[i].user_id # orders[j].user_id

AdminOps == {"create_service", "update_order_status", "approve_deposit",
             "get_all_users", "get_all_orders", "get_deposits", "get_stats"}

\* C10: admin gating: a request to an admin endpoint by a user whose stored role
\* is not "admin" answers 403 "Admin access required" and changes no service, order,
\* transaction or balance; no handler of an admin endpoint runs for such a user.
C10_AdminGating ==
    [][/\ (resp'.op \in AdminOps /\ users[resp'.token].role # "admin") =>
              /\ resp'.status = 403
              /\ resp'.detail = "Admin access required"
              /\ StoreUnchanged
       /\ \A r \in Reqs :
              req'[r].op \in AdminOps => users[req'[r].token].role = "admin"]_vars

\* A non-admin was just refused a status update while an order is stored.
C10_Forbidden ==
    /\ resp.op = "update_order_status"
    /\ resp.status = 403
    /\ users[resp.token].role = "user"
    /\ orders # <<>>

\* C11: authentication gating: a request to a protected endpoint that carries
\* no token, a token jwt.decode refuses, an expired token, or a token whose
\* user is not stored is answered 401 and changes no stored state.
C11_UnauthenticatedIs401 ==
    [][(resp'.op \in ProtectedOps /\ resp'.token \in BadTokens) =>
           /\ resp'.status = 401
           /\ StoreUnchanged]_vars

\* C12: email uniqueness: no two stored users share an email.
C12_EmailUnique ==
    \A a, b \in DOMAIN users : a # b => users[a].email # users[b].email

\* C13: credential round trip: a login with the email and password a stored
\* user registered with answers 200 with a token that get_current_user
\* resolves to that user's id; any other login answers 401 "Invalid
\* credentials".
C13_CredentialRoundTrip ==
    [][\A r \in Reqs :
          (At(r, "login", "find") /\ Stepped(r)) =>
              LET registered == {id \in DOMAIN users :
                                    /\ users[id].email = req[r].args.email
                                    /\ users[id].password_hash[2] = req[r].args.password}
              IN  /\ resp'.op = "login"
                  /\ IF registered # {}
                       THEN /\ resp'.status = 200
                            /\ \A id \in registered :
                                   \A u \in get_current_user(resp'.result[1].token) :
                                       u.id = id
                            /\ get_current_user(resp'.result[1].token) # {}
                       ELSE /\ resp'.status = 401
                            /\ resp'.detail = "Invalid credentials"]_vars

\* C14: cost computation and boundary: a create_order in range is refused with
\* "Insufficient balance" exactly when the balance it read is below
\* (quantity / 1000) * rate, the unrounded product; otherwise its Order carries
\* that total_cost and the debit subtracts exactly it.  At rate 2.50 a
\* quantity of 500 costs 1.25: a balance of 1.00 is refused, a balance of
\* exactly 1.25 is accepted.
C14_CostComputation ==
    [][\A r \in Reqs :
          /\ (At(r, "create_order", "svc") /\ Stepped(r)) =>
                 \A s \in FindOne(services, req[r].args.service_id) :
                     (/\ s.min_quantity <= req[r].args.quantity
                      /\ req[r].args.quantity <= s.max_quantity) =>
                         /\ IF req[r].user.balance < req[r].args.quantity * s.rate
                              THEN /\ resp'.status = 400
                                   /\ resp'.detail = "Insufficient balance"
                              ELSE /\ req'[r].pc = "debit"
                                   /\ req'[r].loc.total_cost = req[r].args.quantity * s.rate
                         /\ (s.rate = 250 /\ req[r].args.quantity = 500) =>
                                /\ req[r].user.balance = MoneyUnit =>
                                       resp'.detail = "Insufficient balance"
                                /\ req[r].user.balance = (5 * MoneyUnit) \div 4 =>
                                       /\ req'[r].pc = "debit"
                                       /\ req'[r].loc.total_cost = (5 * MoneyUnit) \div 4
          /\ (At(r, "create_order", "debit") /\ Stepped(r)) =>
                 users'[req[r].user.id].balance
                     = users[req[r].user.id].balance - req[r].loc.total_cost]_vars

\* A user whose only deposit, of 1.25, was approved has placed one order of
\* 500 at rate 2.50: it cost 1.25 and the balance is 0.00.
C14_ExactBalanceSpent ==
    /\ Quiescent
    /\ Len(transactions) = 1
    /\ transactions[1].status = "approved"
    /\ transactions[1].amount = (5 * MoneyUnit) \div 4
    /\ Len(orders) = 1
    /\ orders[1].quantity = 500
    /\ orders[1].service_id = 1
    /\ orders[1].total_cost = (5 * MoneyUnit) \div 4
    /\ orders[1].user_id = transactions[1].user_id
    /\ users[orders[1].user_id].balance = 0

WellFormedLinks == {"https://instagram.com/testprofile"}

\* C16: link validation: no order is stored, and no placement is past its
\* checks, with a link that is not a well-formed URL.
C16_LinkValidated ==
    /\ \A i \in 1..Len(orders) : orders[i].link \in WellFormedLinks
    /\ \A r \in Reqs :
           (req[r].op = "create_order" /\ req[r].pc \in {"debit", "insert"}) =>
               req[r].args.link \in WellFormedLinks

\* The documents of a listing are exactly those of docs, each once, and come
\* in strictly descending created_at.
NewestFirst(result, docs) ==
    /\ Len(result) = Len(docs)
    /\ \A i \in 1..Len(docs) : \E j \in 1..Len(result) : result[j] = docs[i]
    /\ \A i, j \in 1..Len(result) : i < j => result[i].created_at > result[j].created_at

C20_NoRefundOnCancel ==
    [][/\ \A r \in Reqs :
              (/\ Stepped(r)
               /\ "update_order_status" \in {req[r].op, req'[r].op}) =>
                  /\ users' = users
                  /\ transactions' = transactions
       /\ resp'.op = "update_order_status" => users' = users
       /\ \A i \in 1..Len(orders) :
              (/\ Len(orders') >= i
               /\ orders[i].status # "cancelled"
               /\ orders'[i].status = "cancelled") =>
                  users'[orders[i].user_id].balance = users[orders[i].user_id].balance]_vars

\* An order was just cancelled, nothing is in flight, and every balance is
\* still the seeded balance less the total_cost of all the user's orders, the
\* cancelled one included.
C20_CancelledStillDebited ==
    /\ Quiescent
    /\ resp.op = "update_order_status"
    /\ resp.status = 200
    /\ \E i \in 1..Len(orders) : orders[i].status = "cancelled"
    /\ \A u \in DOMAIN users :
           users[u].balance = SeedUsers[u].balance - SumOf(OrdersOf(u), "total_cost")

\* C18: a transaction's status is final once it leaves pending: no step
\* changes the status of a transaction that is approved or rejected.
C18_StatusFinal ==
    [][\A i \in 1..Len(transactions) :
          transactions[i].status # "pending" =>
              /\ Len(transactions') >= i
              /\ transactions'[i].status = transactions[i].status]_vars

\* C19: decision-time balance: a create_order is refused with "Insufficient
\* balance" only when the balance stored at that moment is below total_cost.
C19_DecisionTimeBalance ==
    [][\A r \in Reqs :
          (/\ At(r, "create_order", "svc")
           /\ Stepped(r)
           /\ resp'.op = "create_order"
           /\ resp'.detail = "Insufficient balance") =>
              \E s \in FindOne(services, req[r].args.service_id) :
                  users[req[r].token].balance < req[r].args.quantity * s.rate]_vars

\* C21: balance frame: a step changes a stored balance only when it is the
\* debit of a create_order past its checks (the ordering user's balance less
\* the order's total_cost) or the credit of an approve_deposit with action
\* "approve" (the transaction owner's balance plus the amount); either step
\* changes that one balance only.  No other step, and no step that answers an
\* error, changes users.
C21_BalanceFrame ==
    [][/\ users' # users =>
              \E r \in Reqs :
                  /\ Stepped(r)
                  /\ \/ /\ At(r, "create_order", "debit")
                        /\ users' = [users EXCEPT ![req[r].token].balance =
                                                      @ - req[r].loc.total_cost]
                     \/ /\ At(r, "approve_deposit", "credit")
                        /\ req[r].args.action = "approve"
                        /\ \E t \in FindOne(transactions, req[r].args.transaction_id) :
                               users' = [users EXCEPT ![t.user_id].balance = @ + t.amount]
       /\ resp'.status >= 400 => users' = users
       /\ resp'.op \in {"login", "get_me", "get_balance", "request_deposit",
                        "update_order_status", "create_service", "get_user_orders",
                        "get_order", "get_all_users", "get_all_orders", "get_deposits",
                        "get_stats"} => users' = users]_vars

\* An approval was just answered: the owner's balance grew by the amount, the
\* approving admin's did not, while an order of another user is stored.
C21_OwnerCredited ==
    /\ resp.op = "approve_deposit"
    /\ resp.detail = "Deposit approved"
    /\ users[resp.token].balance = SeedUsers[resp.token].balance
    /\ Len(transactions) = 1
    /\ transactions[1].user_id # resp.token
    /\ users[transactions[1].user_id].balance
           = SeedUsers[transactions[1].user_id].balance + transactions[1].amount
    /\ orders # <<>>

\* C22: deposit request: a request_deposit goes past its check only with an
\* amount above zero, and is otherwise answered 400 "Amount must be positive"
\* with nothing stored; one that goes on stores exactly one transaction, owned
\* by the caller, of type "deposit", with the amount asked for and status
\* "pending", and no step of it changes a balance.
C22_DepositRequest ==
    [][/\ (resp'.op = "request_deposit" /\ resp'.status # 200) =>
              /\ resp'.status = 400
              /\ resp'.detail = "Amount must be positive"
              /\ StoreUnchanged
       /\ \A r \in Reqs :
              /\ (Free(r) /\ req'[r].op = "request_deposit") =>
                     /\ req'[r].args.amount > 0
                     /\ StoreUnchanged
              /\ (At(r, "request_deposit", "insert") /\ Stepped(r)) =>
                     /\ Len(transactions') = Len(transactions) + 1
                     /\ SubSeq(transactions', 1, Len(transactions)) = transactions
                     /\ LET t == transactions'[Len(transactions')]
                        IN  /\ t.user_id = req[r].token
                            /\ t.type = "deposit"
                            /\ t.amount = req[r].args.amount
                            /\ t.status = "pending"
                            /\ \A i \in 1..Len(transactions) : transactions[i].id # t.id
                     /\ users' = users
                     /\ orders' = orders
                     /\ resp'.op = "request_deposit"
                     /\ resp'.status = 200]_vars

\* A deposit request was just answered 200: its transaction is stored,
\* pending, and the caller's balance is what it was.
C22_PendingUncredited ==
    /\ resp.op = "request_deposit"
    /\ resp.status = 200
    /\ Len(transactions) = 1
    /\ transactions[1].user_id = resp.token
    /\ transactions[1].status = "pending"
    /\ transactions[1].amount > 0
    /\ users[resp.token].balance = SeedUsers[resp.token].balance

\* C23: permissive status machine: an update_order_status that reaches an
\* existing order whose status differs from the one asked for, whatever the
\* two are, answers 200 and the order has the status asked for; a request goes
\* past its check only with one of pending, processing, completed, cancelled,
\* and "Invalid status" is a 400 that leaves the orders as they were; so every
\* stored status is one of the four.
C23_PermissiveStatusMachine ==
    [][/\ \A r \in Reqs :
              /\ (Free(r) /\ req'[r].op = "update_order_status") =>
                     /\ req'[r].args.status
                            \in {"pending", "processing", "completed", "cancelled"}
                     /\ StoreUnchanged
              /\ (At(r, "update_order_status", "update") /\ Stepped(r)) =>
                     \A i \in 1..Len(orders) :
                         (/\ orders[i].id = req[r].args.order_id
                          /\ orders[i].status # req[r].args.status) =>
                             /\ resp'.status = 200
                             /\ orders'[i].status = req[r].args.status
       /\ (resp'.op = "update_order_status" /\ resp'.detail = "Invalid status") =>
              /\ resp'.status = 400
              /\ StoreUnchanged
       /\ \A i \in 1..Len(orders') :
              orders'[i].status \in {"pending", "processing", "completed", "cancelled"}]_vars

\* A backward move was just accepted: an order that was completed before
\* (its completed_at is set) is pending again.
C23_CompletedBackToPending ==
    /\ resp.op = "update_order_status"
    /\ resp.status = 200
    /\ \E i \in 1..Len(orders) :
           orders[i].status = "pending" /\ orders[i].completed_at # NoStamp

\* C24: completed_at stamping: a new order is stored with completed_at unset;
\* an update to "completed" sets the order's completed_at to the time of the
\* request; no other step changes a completed_at; an update to the status a
\* non-completed order already has leaves the orders as they were; and a
\* completed order always has its completed_at set.
C24_CompletedAtStamping ==
    [][/\ \A r \in Reqs :
              /\ (At(r, "create_order", "insert") /\ Stepped(r)) =>
                     orders'[Len(orders')].completed_at = NoStamp
              /\ (/\ At(r, "update_order_status", "update")
                  /\ Stepped(r)
                  /\ req[r].args.status = "completed") =>
                     \A i \in 1..Len(orders) :
                         orders[i].id = req[r].args.order_id =>
                             /\ req[r].loc.completed_at # NoStamp
                             /\ orders'[i].completed_at = req[r].loc.completed_at
              /\ (/\ At(r, "update_order_status", "update")
                  /\ Stepped(r)
                  /\ req[r].args.status # "completed"
                  /\ \A i \in 1..Len(orders) :
                         orders[i].id = req[r].args.order_id =>
                             orders[i].status = req[r].args.status) =>
                     orders' = orders
       /\ \A i \in 1..Len(orders) :
              orders'[i].completed_at # orders[i].completed_at =>
                  \E r \in Reqs :
                      /\ At(r, "update_order_status", "update")
                      /\ Stepped(r)
                      /\ req[r].args.status = "completed"
                      /\ req[r].args.order_id = orders[i].id
       /\ \A i \in 1..Len(orders') :
              orders'[i].status = "completed" => orders'[i].completed_at # NoStamp]_vars

\* An order that was completed and then cancelled keeps its completed_at,
\* next to an order that was never completed and has none.
C24_StampSurvivesCancel ==
    /\ Len(orders) = 2
    /\ \E i, j \in 1..2 :
           /\ orders[i].status = "cancelled"
           /\ orders[i].completed_at # NoStamp
           /\ orders[j].status # "completed"
           /\ orders[j].completed_at = NoStamp

\* C25: an update_order_status with a legal status answers 404 "Order not
\* found" exactly when no stored order has the id asked for.
C25_NotFoundIffAbsent ==
    [][\A r \in Reqs :
          (At(r, "update_order_status", "update") /\ Stepped(r)) =>
              (resp'.status = 404
                  <=> \A i \in 1..Len(orders) : orders[i].id # req[r].args.order_id)]_vars

\* C26: order immutability: no step changes the id, user_id, service_id, link,
\* quantity, total_cost or created_at of a stored order, or removes it; a step
\* that changes its status or completed_at is the update of an
\* update_order_status request for that order by a user whose stored role is
\* "admin".
C26_OrderImmutability ==
    [][\A i \in 1..Len(orders) :
          /\ Len(orders') >= i
          /\ \A k \in {"id", "user_id", "service_id", "link", "quantity", "total_cost",
                        "created_at"} : orders'[i][k] = orders[i][k]
          /\ (\/ orders'[i].status # orders[i].status
              \/ orders'[i].completed_at # orders[i].completed_at) =>
                 \E r \in Reqs :
                     /\ At(r, "update_order_status", "update")
                     /\ Stepped(r)
                     /\ req[r].args.order_id = orders[i].id
                     /\ users[req[r].token].role = "admin"]_vars

\* Two orders, one cancelled and one completed by the admin, both still with
\* the link, quantity and total_cost they were placed with, and the test user
\* was just refused an update.
C26_UpdatedOrdersIntact ==
    /\ resp.op = "update_order_status"
    /\ resp.status = 403
    /\ Len(orders) = 2
    /\ \E i, j \in 1..2 : orders[i].status = "cancelled" /\ orders[j].status = "completed"
    /\ \A i \in 1..2 :
           /\ orders[i].id = i
           /\ orders[i].link \in LinkInputs
           /\ orders[i].quantity \in BookQuantities
           /\ orders[i].total_cost = orders[i].quantity * 200

\* C27: catalog well-formedness: every stored service has a positive rate, a
\* positive min_quantity, a positive max_quantity, and min_quantity at most
\* max_quantity.
C27_CatalogWellFormed ==
    \A i \in 1..Len(services) :
        /\ services[i].rate > 0
        /\ services[i].min_quantity > 0
        /\ services[i].max_quantity > 0
        /\ services[i].min_quantity <= services[i].max_quantity

\* C30: persisted-order well-formedness: every stored order names a stored
\* service, its quantity is between that service's min_quantity and
\* max_quantity, its total_cost is (quantity / 1000) * the service's rate, and
\* its user_id names a stored user.
C30_OrdersWellFormed ==
    \A i \in 1..Len(orders) :
        /\ orders[i].user_id \in DOMAIN users
        /\ \E j \in 1..Len(services) :
               /\ services[j].id = orders[i].service_id
               /\ services[j].min_quantity <= orders[i].quantity
               /\ orders[i].quantity <= services[j].max_quantity
               /\ orders[i].total_cost = orders[i].quantity * services[j].rate

\* An order was placed at the maximum of its service, and the admin has added
\* a service to the catalog.
C30_OrderAtMaximum ==
    /\ Len(services) > Len(SeedServices)
    /\ \E i \in 1..Len(orders), j \in 1..Len(services) :
           /\ services[j].id = orders[i].service_id
           /\ orders[i].quantity = services[j].max_quantity

\* C28: approval ordering and completion: an approving request sets the
\* transaction's status to "approved" in one step, with no balance changed,
\* and only then is at its credit; its credit adds the amount to the owner's
\* balance; no balance changes otherwise.  Whenever no approving request is at
\* its credit, every user's balance holds at least the initial balance plus
\* the user's approved amounts.  With every started request resumed, a request
\* at its credit leaves it, and a user with an approved transaction comes to
\* hold the initial balance plus the approved amounts.
C28_ApprovalOrderingAndCompletion ==
    /\ [][/\ \A r \in Reqs :
              /\ (/\ At(r, "approve_deposit", "set")
                  /\ Stepped(r)
                  /\ req[r].args.action = "approve") =>
                     /\ \A i \in 1..Len(transactions) :
                            transactions[i].id = req[r].args.transaction_id =>
                                transactions'[i].status = "approved"
                     /\ users' = users
                     /\ req'[r].pc = "credit"
              /\ (req'[r].pc = "credit" /\ req[r].pc # "credit") =>
                     /\ At(r, "approve_deposit", "set")
                     /\ req[r].args.action = "approve"
              /\ (At(r, "approve_deposit", "credit") /\ Stepped(r)) =>
                     /\ transactions' = transactions
                     /\ users'[req[r].loc.transaction.user_id].balance
                            = users[req[r].loc.transaction.user_id].balance
                                + req[r].loc.transaction.amount
          /\ \A u \in DOMAIN users :
                 users'[u].balance # users[u].balance =>
                     \E r \in Reqs :
                         /\ At(r, "approve_deposit", "credit")
                         /\ Stepped(r)
                         /\ req[r].loc.transaction.user_id = u]_vars
    /\ []((\A r \in Reqs : req[r].pc # "credit") =>
              \A u \in DOMAIN SeedUsers :
                  users[u].balance
                      >= SeedUsers[u].balance
                           + SumOf(SelectSeq(transactions,
                                             LAMBDA t : t.user_id = u /\ t.status = "approved"),
                                   "amount"))
    /\ \A r \in Reqs : (req[r].pc = "credit") ~> (req[r].pc # "credit")
    /\ \A u \in DOMAIN SeedUsers :
           (\E i \in 1..Len(transactions) :
                transactions[i].user_id = u /\ transactions[i].status = "approved")
             ~> (users[u].balance
                     >= SeedUsers[u].balance
                          + SumOf(SelectSeq(transactions,
                                            LAMBDA t : t.user_id = u /\ t.status = "approved"),
                                  "amount"))

\* A transaction is approved and its owner still holds the initial balance,
\* while the approving request is at its credit.
C28_ApprovedNotYetCredited ==
    \E r \in Reqs, i \in 1..Len(transactions) :
        /\ req[r].pc = "credit"
        /\ transactions[i].id = req[r].args.transaction_id
        /\ transactions[i].status = "approved"
        /\ users[transactions[i].user_id].balance
               = SeedUsers[transactions[i].user_id].balance

\* C29: role immutability: no step removes a stored user or changes its role;
\* a user that appears was stored by register with role "user"; so the users
\* with role "admin" are those seeded with it, and a request to an admin
\* endpoint goes past its check, or is answered 200, only for one of them.
C29_RoleImmutability ==
    [][/\ \A u \in DOMAIN users :
              /\ u \in DOMAIN users'
              /\ users'[u].role = users[u].role
       /\ \A u \in DOMAIN users' \ DOMAIN users :
              /\ users'[u].role = "user"
              /\ resp'.op = "register"
       /\ {u \in DOMAIN users' : users'[u].role = "admin"}
              = {u \in DOMAIN SeedUsers : SeedUsers[u].role = "admin"}
       /\ \A r \in Reqs :
              req'[r].op \in {"create_service", "update_order_status", "approve_deposit",
                              "get_all_users", "get_all_orders", "get_deposits",
                              "get_stats"} =>
                  /\ req'[r].token \in DOMAIN SeedUsers
                  /\ SeedUsers[req'[r].token].role = "admin"
       /\ (/\ resp'.op \in {"create_service", "update_order_status", "approve_deposit",
                             "get_all_users", "get_all_orders", "get_deposits",
                             "get_stats"}
           /\ resp'.status = 200) =>
              /\ resp'.token \in DOMAIN SeedUsers
              /\ SeedUsers[resp'.token].role = "admin"]_vars

\* A user stored by register was just refused at an admin endpoint, after a
\* debit and a credit were written to db.users.
C29_RegisteredUserRefused ==
    /\ resp.op \in {"get_all_users", "approve_deposit"}
    /\ resp.status = 403
    /\ resp.token \in DOMAIN users \ DOMAIN SeedUsers
    /\ users[resp.token].role = "user"
    /\ \E u \in DOMAIN SeedUsers : users[u].balance < SeedUsers[u].balance
    /\ \E u \in DOMAIN SeedUsers : users[u].balance > SeedUsers[u].balance

====
